---- MODULE Spec2Model ----
(***************************************************************************)
(* A model of src/echo.py: the echo processor reads one JSON document      *)
(* from standard input, sets the keys echoed_by and ts, and writes the      *)
(* document to standard output.                                             *)
(*                                                                          *)
(* Texts (standard input, standard output) are sequences of lexemes; white  *)
(* space between lexemes is not modelled.  json.load and json.dump are      *)
(* modelled as CPython's json module computes them: a recursive-descent     *)
(* decoder that also accepts the constants NaN, Infinity and -Infinity,     *)
(* integers as int, numbers with a fraction or an exponent as IEEE doubles  *)
(* (overflowing to inf), dictionaries in insertion order with the last      *)
(* duplicate winning, and an encoder that writes floats by repr and inf and *)
(* nan as the bare words Infinity and NaN.                                  *)
(* Not modelled: the interpreter's resource limits (recursion depth, the    *)
(* integer digit limit, memory), string escapes, and the byte decoding of   *)
(* the streams.                                                             *)
(***************************************************************************)
EXTENDS Integers, Sequences, FiniteSets, TLC

(***************************************************************************)
(* Bounds of the model.                                                     *)
(***************************************************************************)
\* Every text of at most MaxTokens lexemes over Alphabet is an input.
MaxTokens == 2
\* Every object text of at most MaxMembers members is an input.
MaxMembers == 2
\* The wall clock reads 0 .. MaxClock ticks.
MaxClock == 3
\* Ticks of the modelled clock per second (time.time() has sub-second resolution).
TicksPerSecond == 2

(***************************************************************************)
(* Lexemes.  k is the lexical class: punct, str (a string literal, s its    *)
(* content), word (a bare word, s its spelling), int (an integer literal of *)
(* value m) or real (a number literal with a fraction or an exponent part,  *)
(* of value m * 10^e).                                                      *)
(***************************************************************************)
P(c) == [k |-> "punct", s |-> c, m |-> 0, e |-> 0]
S(c) == [k |-> "str", s |-> c, m |-> 0, e |-> 0]
W(c) == [k |-> "word", s |-> c, m |-> 0, e |-> 0]
I(n) == [k |-> "int", s |-> "", m |-> n, e |-> 0]
R(n, x) == [k |-> "real", s |-> "", m |-> n, e |-> x]

IsP(t, c) == t.k = "punct" /\ t.s = c

Abs(n) == IF n < 0 THEN -n ELSE n

RECURSIVE Pow10(_)
Pow10(n) == IF n <= 0 THEN 1 ELSE 10 * Pow10(n - 1)

RECURSIVE Digits(_)
Digits(n) == IF n < 10 THEN 1 ELSE 1 + Digits(n \div 10)

\* The decimal m * 10^e with no trailing zero in m (0 as <<0, 0>>).
RECURSIVE Normalize(_, _)
Normalize(n, x) ==
    IF n = 0 THEN <<0, 0>>
    ELSE IF n % 10 = 0 THEN Normalize(n \div 10, x + 1)
    ELSE <<n, x>>

(***************************************************************************)
(* Python values: <<"none">>, <<"true">>, <<"false">>, <<"int", n>>,         *)
(* <<"float", m, e>> (finite, normalized), <<"inf">>, <<"-inf">>, <<"nan">>, *)
(* <<"str", s>>, <<"list", items>>, <<"dict", pairs>> with pairs a sequence *)
(* of <<key, value>> in insertion order, keys unique.                       *)
(***************************************************************************)
\* Largest and smallest decimal order of magnitude of a non-zero double.
MaxDouble10Exp == 308
MinDouble10Exp == -324

\* float(text) of a literal of value n * 10^x (n of one or two digits).
PyFloat(n, x) ==
    LET mag == x + Digits(Abs(n)) - 1
        lead == Abs(n) \div Pow10(Digits(Abs(n)) - 1)
    IN  IF n = 0 THEN <<"float", 0, 0>>
        ELSE IF mag > MaxDouble10Exp \/ (mag = MaxDouble10Exp /\ lead >= 2)
             THEN IF n > 0 THEN <<"inf">> ELSE <<"-inf">>
        ELSE IF mag < MinDouble10Exp THEN <<"float", 0, 0>>
        ELSE <<"float", Normalize(n, x)[1], Normalize(n, x)[2]>>

\* Mutant of DictPut: an existing key keeps its old value (dict.setdefault).
DictPutKeep(pairs, key, val) ==
    IF \E i \in 1..Len(pairs) : pairs[i][1] = key
    THEN pairs
    ELSE Append(pairs, <<key, val>>)

\* dict.__setitem__: an existing key keeps its position, a new one is appended.
DictPut(pairs, key, val) ==
    IF \E i \in 1..Len(pairs) : pairs[i][1] = key
    THEN [i \in 1..Len(pairs) |-> IF pairs[i][1] = key THEN <<key, val>> ELSE pairs[i]]
    ELSE Append(pairs, <<key, val>>)

DictKeys(pairs) == {pairs[i][1] : i \in 1..Len(pairs)}

(***************************************************************************)
(* json.load: the decoder.  A result is [ok, val, pos]: pos is the index of *)
(* the first lexeme after the value.                                        *)
(***************************************************************************)
PyFail == [ok |-> FALSE, val |-> <<"none">>, pos |-> 0]
PyOk(v, p) == [ok |-> TRUE, val |-> v, pos |-> p]

\* The bare words the scanner accepts (parse_constant covers the last three).
PyWord(w) ==
    CASE w = "null" -> <<"none">>
      [] w = "true" -> <<"true">>
      [] w = "false" -> <<"false">>
      [] w = "NaN" -> <<"nan">>
      [] w = "Infinity" -> <<"inf">>
      [] w = "-Infinity" -> <<"-inf">>
      [] OTHER -> <<"bad">>

RECURSIVE PyScanOnce(_, _), PyObjectRest(_, _, _), PyArrayRest(_, _, _)
RECURSIVE PyObjectNext(_, _, _, _), PyArrayNext(_, _, _)

\* scan_once at index i.
PyScanOnce(t, i) ==
    IF i > Len(t) THEN PyFail
    ELSE LET c == t[i] IN
        CASE c.k = "str" -> PyOk(<<"str", c.s>>, i + 1)
          [] c.k = "int" -> PyOk(<<"int", c.m>>, i + 1)
          [] c.k = "real" -> PyOk(PyFloat(c.m, c.e), i + 1)
          [] c.k = "word" ->
                IF PyWord(c.s) = <<"bad">> THEN PyFail ELSE PyOk(PyWord(c.s), i + 1)
          [] IsP(c, "{") ->
                IF i + 1 <= Len(t) /\ IsP(t[i + 1], "}")
                THEN PyOk(<<"dict", <<>>>>, i + 2)
                ELSE PyObjectRest(t, i + 1, <<>>)
          [] IsP(c, "[") ->
                IF i + 1 <= Len(t) /\ IsP(t[i + 1], "]")
                THEN PyOk(<<"list", <<>>>>, i + 2)
                ELSE PyArrayRest(t, i + 1, <<>>)
          [] OTHER -> PyFail

\* JSONObject from a member at index i, with the pairs read so far: a string,
\* a colon and a value (v and upd are bound by set constructors, so that each
\* is computed once).
PyObjectRest(t, i, pairs) ==
    IF i + 1 > Len(t) \/ t[i].k # "str" \/ ~IsP(t[i + 1], ":") THEN PyFail
    ELSE CHOOSE r \in {PyObjectNext(t, t[i].s, pairs, v) :
                            v \in {PyScanOnce(t, i + 2)}} : TRUE

\* JSONObject after the value v of the member named key: "}" ends the object,
\* "," asks for another member.
PyObjectNext(t, key, pairs, v) ==
    IF ~v.ok \/ v.pos > Len(t) THEN PyFail
    ELSE IF IsP(t[v.pos], "}") THEN PyOk(<<"dict", DictPut(pairs, key, v.val)>>, v.pos + 1)
    ELSE IF IsP(t[v.pos], ",")
         THEN CHOOSE r \in {PyObjectRest(t, v.pos + 1, upd) :
                                upd \in {DictPut(pairs, key, v.val)}} : TRUE
    ELSE PyFail

\* JSONArray from an element at index i, with the items read so far.
PyArrayRest(t, i, items) ==
    CHOOSE r \in {PyArrayNext(t, items, v) : v \in {PyScanOnce(t, i)}} : TRUE

\* JSONArray after the element v: "]" ends the array, "," asks for another element.
PyArrayNext(t, items, v) ==
    IF ~v.ok \/ v.pos > Len(t) THEN PyFail
    ELSE IF IsP(t[v.pos], "]") THEN PyOk(<<"list", Append(items, v.val)>>, v.pos + 1)
    ELSE IF IsP(t[v.pos], ",")
         THEN CHOOSE r \in {PyArrayRest(t, v.pos + 1, upd) :
                                upd \in {Append(items, v.val)}} : TRUE
    ELSE PyFail

\* JSONDecoder.decode: one value, then the end of the text ("Extra data" otherwise).
PyLoad(t) ==
    LET r == PyScanOnce(t, 1) IN
        IF r.ok /\ r.pos = Len(t) + 1 THEN r ELSE PyFail

(***************************************************************************)
(* json.dump: the encoder.                                                  *)
(***************************************************************************)
\* float.__repr__ of a finite float: fixed notation with ".0" for an integral
\* value below 10^16, the shortest decimal otherwise.
FloatRepr(n, x) ==
    IF n = 0 THEN R(0, -1)
    ELSE IF x >= 0 /\ x + Digits(Abs(n)) - 1 < 16 THEN R(n * Pow10(x + 1), -1)
    ELSE R(n, x)

RECURSIVE PyDumps(_), PyDumpItems(_, _), PyDumpPairs(_, _)

PyDumps(v) ==
    CASE v[1] = "none" -> <<W("null")>>
      [] v[1] = "true" -> <<W("true")>>
      [] v[1] = "false" -> <<W("false")>>
      [] v[1] = "nan" -> <<W("NaN")>>
      [] v[1] = "inf" -> <<W("Infinity")>>
      [] v[1] = "-inf" -> <<W("-Infinity")>>
      [] v[1] = "int" -> <<I(v[2])>>
      [] v[1] = "float" -> <<FloatRepr(v[2], v[3])>>
      [] v[1] = "str" -> <<S(v[2])>>
      [] v[1] = "list" -> <<P("[")>> \o PyDumpItems(v[2], 1) \o <<P("]")>>
      [] v[1] = "dict" -> <<P("{")>> \o PyDumpPairs(v[2], 1) \o <<P("}")>>

PyDumpItems(items, i) ==
    IF i > Len(items) THEN <<>>
    ELSE (IF i > 1 THEN <<P(",")>> ELSE <<>>) \o PyDumps(items[i])
         \o PyDumpItems(items, i + 1)

PyDumpPairs(pairs, i) ==
    IF i > Len(pairs) THEN <<>>
    ELSE (IF i > 1 THEN <<P(",")>> ELSE <<>>) \o <<S(pairs[i][1]), P(":")>>
         \o PyDumps(pairs[i][2]) \o PyDumpPairs(pairs, i + 1)

(***************************************************************************)
(* The source file as the interpreter sees it, one lexical kind per line.   *)
(***************************************************************************)
\* The last line of the DOC block (the line holding ---END---*/).
HeaderEnd == 12

FileLines ==
    <<"doc_open", "doc_json", "doc_json", "doc_json", "doc_json", "doc_json",
      "doc_json", "doc_json", "doc_json", "doc_json", "doc_json", "doc_close",
      "import", "blank", "def", "stmt", "stmt", "stmt", "stmt", "blank",
      "if", "stmt">>

\* The processing logic alone: the file without the DOC block.
BodyLines == SubSeq(FileLines, HeaderEnd + 1, Len(FileLines))

Source(which) == IF which = "file" THEN FileLines ELSE BodyLines

\* Lines CPython's tokenizer and parser accept; "/*---DOC---" opens no Python
\* comment, and the interpreter compiles the whole file before it runs a line.
PyLineOk(kind) == kind \in {"import", "blank", "def", "stmt", "if"}

PyCompiles(lines) == \A i \in 1..Len(lines) : PyLineOk(lines[i])

(***************************************************************************)
(* Inputs.                                                                  *)
(***************************************************************************)
Alphabet ==
    {P("{"), P("}"), P("["), P("]"), P(","), P(":"),
     S("a"), S("ts"), S("echoed_by"),
     I(7), R(1, 2), R(1, 400),
     W("null"), W("true"), W("NaN"), W("not")}

ShortTexts == UNION {[1..n -> Alphabet] : n \in 0..MaxTokens}

MemberKeys == {"a", "ts", "echoed_by"}

\* 7, 1e400, NaN and [1e2, "a", null, {"a": true}].
MemberValues ==
    {<<I(7)>>, <<R(1, 400)>>, <<W("NaN")>>,
     <<P("["), R(1, 2), P(","), S("a"), P(","), W("null"), P(","),
       P("{"), S("a"), P(":"), W("true"), P("}"), P("]")>>}

RECURSIVE Members(_, _)
Members(ms, i) ==
    IF i > Len(ms) THEN <<>>
    ELSE (IF i > 1 THEN <<P(",")>> ELSE <<>>) \o <<S(ms[i][1]), P(":")>>
         \o ms[i][2] \o Members(ms, i + 1)

ObjectTexts ==
    {<<P("{")>> \o Members(ms, 1) \o <<P("}")>> :
        ms \in UNION {[1..n -> MemberKeys \X MemberValues] : n \in 0..MaxMembers}}

Inputs == ShortTexts \cup ObjectTexts

(***************************************************************************)
(* State.                                                                   *)
(***************************************************************************)
VARIABLES
    stdin,   \* the text on standard input (the same for every invocation)
    eof,     \* standard input has reached end-of-stream
    src,     \* per invocation: the source handed to the interpreter
    pc,      \* per invocation: the next statement
    data,    \* per invocation: the local variable data
    now,     \* per invocation: the reading of time.time(), in ticks (-1: not read)
    stdout,  \* per invocation: the text written to standard output
    status,  \* per invocation: the exit status (-1: running)
    exc,     \* per invocation: the unhandled exception, "" if none
    log      \* per invocation: the statements completed and I/O events, in order

vars == <<stdin, eof, src, pc, data, now, stdout, status, exc, log>>

Procs == {1, 2}

InitProc(sources) ==
    /\ stdin \in Inputs
    /\ eof = FALSE
    /\ src = sources
    /\ pc = [p \in Procs |-> IF sources[p] = "none" THEN "none" ELSE "start"]
    /\ data = [p \in Procs |-> <<"none">>]
    /\ now = [p \in Procs |-> -1]
    /\ stdout = [p \in Procs |-> <<>>]
    /\ status = [p \in Procs |-> -1]
    /\ exc = [p \in Procs |-> ""]
    /\ log = [p \in Procs |-> <<>>]

\* One invocation of the processing logic.
Init == InitProc(<<"body", "none">>)

\* Two invocations of the processing logic on the same input.
InitPair == InitProc(<<"body", "body">>)

\* The file as it is, and the processing logic alone, on the same input.
InitScript == InitProc(<<"file", "body">>)

\* An exception nothing handles: the traceback goes to standard error and the
\* interpreter exits with status 1.
Fault(p, e) ==
    /\ pc' = [pc EXCEPT ![p] = "exited"]
    /\ status' = [status EXCEPT ![p] = 1]
    /\ exc' = [exc EXCEPT ![p] = e]

\* The writer of standard input closes the stream.
CloseStdin ==
    /\ ~eof
    /\ eof' = TRUE
    /\ UNCHANGED <<stdin, src, pc, data, now, stdout, status, exc, log>>

\* The interpreter compiles the source; a second invocation starts after the first.
Compile(p) ==
    /\ pc[p] = "start"
    /\ p = 1 \/ pc[1] = "exited"
    /\ IF PyCompiles(Source(src[p]))
       THEN /\ pc' = [pc EXCEPT ![p] = "load"]
            /\ UNCHANGED <<status, exc>>
       ELSE Fault(p, "SyntaxError")
    /\ UNCHANGED <<stdin, eof, src, data, now, stdout, log>>

\* Mutant of Load: a failed decode is retried once before it faults.
LoadRetry(p) ==
    /\ pc[p] = "load"
    /\ eof
    /\ log' = [log EXCEPT ![p] = Append(@, "read_stdin")]
    /\ IF PyLoad(stdin).ok
       THEN /\ data' = [data EXCEPT ![p] = PyLoad(stdin).val]
            /\ pc' = [pc EXCEPT ![p] = "set_echoed_by"]
            /\ UNCHANGED <<status, exc>>
       ELSE IF log[p] = <<>>
       THEN UNCHANGED <<data, pc, status, exc>>
       ELSE /\ Fault(p, "JSONDecodeError")
            /\ UNCHANGED data
    /\ UNCHANGED <<stdin, eof, src, now, stdout>>

\* Mutant of Load: a failed decode is reported as a document on standard output.
LoadReportsError(p) ==
    /\ pc[p] = "load"
    /\ eof
    /\ log' = [log EXCEPT ![p] = Append(@, "read_stdin")]
    /\ IF PyLoad(stdin).ok
       THEN /\ data' = [data EXCEPT ![p] = PyLoad(stdin).val]
            /\ pc' = [pc EXCEPT ![p] = "set_echoed_by"]
            /\ UNCHANGED <<status, exc, stdout>>
       ELSE /\ Fault(p, "JSONDecodeError")
            /\ stdout' = [stdout EXCEPT ![p] = <<P("{"), S("error"), P(":"), S("parse"), P("}")>>]
            /\ UNCHANGED data
    /\ UNCHANGED <<stdin, eof, src, now>>

\* data = json.load(sys.stdin): read to end-of-stream, then decode.
Load(p) ==
    /\ pc[p] = "load"
    /\ eof
    /\ log' = [log EXCEPT ![p] = Append(@, "read_stdin")]
    /\ IF PyLoad(stdin).ok
       THEN /\ data' = [data EXCEPT ![p] = PyLoad(stdin).val]
            /\ pc' = [pc EXCEPT ![p] = "set_echoed_by"]
            /\ UNCHANGED <<status, exc>>
       ELSE /\ Fault(p, "JSONDecodeError")
            /\ UNCHANGED data
    /\ UNCHANGED <<stdin, eof, src, now, stdout>>

\* Mutant of SetEchoedBy: a value that is no dictionary is replaced by a new one.
SetEchoedByLenient(p) ==
    /\ pc[p] = "set_echoed_by"
    /\ data' = [data EXCEPT ![p] =
                    <<"dict", DictPut(IF @[1] = "dict" THEN @[2] ELSE <<>>,
                                      "echoed_by", <<"str", "python">>)>>]
    /\ pc' = [pc EXCEPT ![p] = "set_ts"]
    /\ log' = [log EXCEPT ![p] = Append(@, "set_echoed_by")]
    /\ UNCHANGED <<stdin, eof, src, now, stdout, status, exc>>

\* data["echoed_by"] = "python"
SetEchoedBy(p) ==
    /\ pc[p] = "set_echoed_by"
    /\ IF data[p][1] = "dict"
       THEN /\ data' = [data EXCEPT ![p] =
                            <<"dict", DictPut(@[2], "echoed_by", <<"str", "python">>)>>]
            /\ pc' = [pc EXCEPT ![p] = "set_ts"]
            /\ log' = [log EXCEPT ![p] = Append(@, "set_echoed_by")]
            /\ UNCHANGED <<status, exc>>
       ELSE /\ Fault(p, "TypeError")
            /\ UNCHANGED <<data, log>>
    /\ UNCHANGED <<stdin, eof, src, now, stdout>>

\* Mutant of PyInt: the reading rounded up (math.ceil) instead of truncated.
PyIntCeil(t) == (t + TicksPerSecond - 1) \div TicksPerSecond

\* int(x) of a non-negative reading in ticks: the whole seconds.
PyInt(t) == t \div TicksPerSecond

\* Mutant of SetTs: the timestamp is stored under echoed_by (a copied line).
SetTsWrongKey(p) ==
    /\ pc[p] = "set_ts"
    /\ \E t \in 0..MaxClock :
        /\ now' = [now EXCEPT ![p] = t]
        /\ data' = [data EXCEPT ![p] =
                        <<"dict", DictPut(@[2], "echoed_by", <<"int", t \div TicksPerSecond>>)>>]
    /\ log' = [log EXCEPT ![p] = @ \o <<"clock", "set_ts">>]
    /\ pc' = [pc EXCEPT ![p] = "dump"]
    /\ UNCHANGED <<stdin, eof, src, stdout, status, exc>>

\* data["ts"] = int(time.time())
SetTs(p) ==
    /\ pc[p] = "set_ts"
    /\ \E t \in 0..MaxClock :
        /\ now' = [now EXCEPT ![p] = t]
        /\ data' = [data EXCEPT ![p] = <<"dict", DictPut(@[2], "ts", <<"int", PyInt(t)>>)>>]
    /\ log' = [log EXCEPT ![p] = @ \o <<"clock", "set_ts">>]
    /\ pc' = [pc EXCEPT ![p] = "dump"]
    /\ UNCHANGED <<stdin, eof, src, stdout, status, exc>>

\* json.dump(data, sys.stdout)
Dump(p) ==
    /\ pc[p] = "dump"
    /\ stdout' = [stdout EXCEPT ![p] = @ \o PyDumps(data[p])]
    /\ log' = [log EXCEPT ![p] = Append(@, "write_stdout")]
    /\ pc' = [pc EXCEPT ![p] = "return"]
    /\ UNCHANGED <<stdin, eof, src, data, now, status, exc>>

\* main() returns and the interpreter exits with status 0.
Exit(p) ==
    /\ pc[p] = "return"
    /\ pc' = [pc EXCEPT ![p] = "exited"]
    /\ status' = [status EXCEPT ![p] = 0]
    /\ UNCHANGED <<stdin, eof, src, data, now, stdout, exc, log>>

Step(p) == Compile(p) \/ Load(p) \/ SetEchoedBy(p) \/ SetTs(p) \/ Dump(p) \/ Exit(p)

Next == CloseStdin \/ \E p \in Procs : Step(p)

Spec == Init /\ [][Next]_vars

SpecPair == InitPair /\ [][Next]_vars

SpecScript == InitScript /\ [][Next]_vars

\* The operating system schedules a runnable process: every enabled step is taken.
FairSpec == Init /\ [][Next]_vars /\ \A p \in Procs : WF_vars(Step(p))

(***************************************************************************)
(* The reference reading of a text, by the JSON grammar (RFC 8259): what    *)
(* the properties below mean by "valid JSON", "a JSON object" and "the      *)
(* value of key k".  It works on spans t[i..j] by bracket nesting, and is   *)
(* independent of the decoder above.  A number is the exact decimal it      *)
(* denotes; an object is a function from its names to values (a repeated    *)
(* name keeps its last value).                                              *)
(***************************************************************************)
\* The change of bracket nesting across lexeme c.
Nesting(c) ==
    IF IsP(c, "{") \/ IsP(c, "[") THEN 1
    ELSE IF IsP(c, "}") \/ IsP(c, "]") THEN -1 ELSE 0

RECURSIVE Scan(_, _, _, _, _)
\* The spans of t[start..j] between its commas at nesting 0, scanning from k at
\* nesting depth.
Scan(t, k, j, depth, start) ==
    IF k > j THEN <<<<start, j>>>>
    ELSE IF IsP(t[k], ",") /\ depth = 0
         THEN <<<<start, k - 1>>>> \o Scan(t, k + 1, j, 0, k + 1)
    ELSE Scan(t, k + 1, j, depth + Nesting(t[k]), start)

\* The spans of t[i..j] between its top-level commas, in order.
Segments(t, i, j) == Scan(t, i, j, 0, i)

RefScalar(c, strict) ==
    \/ c.k \in {"str", "int", "real"}
    \/ c.k = "word" /\ (~strict \/ c.s \in {"null", "true", "false"})

RECURSIVE RefShape(_, _, _, _)
\* t[i..j] is one value by the grammar; strict: its bare words are JSON literals.
RefShape(t, i, j, strict) ==
    IF i > j THEN FALSE
    ELSE IF i = j THEN RefScalar(t[i], strict)
    ELSE IF IsP(t[i], "[") /\ IsP(t[j], "]") THEN
        \/ i + 1 = j
        \/ LET segs == Segments(t, i + 1, j - 1) IN
            \A n \in 1..Len(segs) : RefShape(t, segs[n][1], segs[n][2], strict)
    ELSE IF IsP(t[i], "{") /\ IsP(t[j], "}") THEN
        \/ i + 1 = j
        \/ LET segs == Segments(t, i + 1, j - 1) IN
            \A n \in 1..Len(segs) :
                /\ segs[n][1] + 2 <= segs[n][2]
                /\ t[segs[n][1]].k = "str"
                /\ IsP(t[segs[n][1] + 1], ":")
                /\ RefShape(t, segs[n][1] + 2, segs[n][2], strict)
    ELSE FALSE

\* The text is a JSON document.
ValidJson(t) == RefShape(t, 1, Len(t), TRUE)

\* The text has the shape of a JSON document, whatever its bare words are.
Shaped(t) == RefShape(t, 1, Len(t), FALSE)

IsObjectText(t) == Len(t) >= 2 /\ IsP(t[1], "{")

\* The text is a JSON document that is an object.
ValidObject(t) == ValidJson(t) /\ IsObjectText(t)

RECURSIVE RefValue(_, _, _)
\* The value of a shaped span.
RefValue(t, i, j) ==
    IF i = j THEN
        CASE t[i].k = "str" -> <<"str", t[i].s>>
          [] t[i].k \in {"int", "real"} ->
                <<"num", Normalize(t[i].m, t[i].e)[1], Normalize(t[i].m, t[i].e)[2]>>
          [] OTHER -> <<"word", t[i].s>>
    ELSE IF IsP(t[i], "[") THEN
        IF i + 1 = j THEN <<"arr", <<>>>>
        ELSE LET segs == Segments(t, i + 1, j - 1) IN
            <<"arr", [n \in 1..Len(segs) |-> RefValue(t, segs[n][1], segs[n][2])]>>
    ELSE
        IF i + 1 = j THEN <<"obj", <<>>>>
        ELSE LET segs == Segments(t, i + 1, j - 1)
                 last(name) == CHOOSE n \in 1..Len(segs) :
                                /\ t[segs[n][1]].s = name
                                /\ \A q \in 1..Len(segs) : t[segs[q][1]].s = name => q <= n
             IN  <<"obj", [name \in {t[segs[n][1]].s : n \in 1..Len(segs)} |->
                             RefValue(t, segs[last(name)][1] + 2, segs[last(name)][2])]>>

\* The object a shaped object text denotes, as a function from names to values.
Obj(t) == RefValue(t, 1, Len(t))[2]

\* How many members of a shaped object text are named name.
MemberCount(t, name) ==
    IF Len(t) = 2 THEN 0
    ELSE LET segs == Segments(t, 2, Len(t) - 1) IN
        Cardinality({n \in 1..Len(segs) : t[segs[n][1]].s = name})

Done(p) == pc[p] = "exited"

\* The number of times event occurs in a log.
Count(l, event) == Cardinality({n \in 1..Len(l) : l[n] = event})

\* The I/O events of a log, in order.
IO(l) == SelectSeq(l, LAMBDA x : x \in {"read_stdin", "clock", "write_stdout"})

\* s is a prefix of whole.
Prefix(s, whole) == Len(s) <= Len(whole) /\ s = SubSeq(whole, 1, Len(s))

(***************************************************************************)
(* Properties.  Spec is one invocation of the processing logic (lines 13 to *)
(* 22, the file without its DOC block): invocation 1.                       *)
(***************************************************************************)
Added == {"echoed_by", "ts"}

\* The number the reference reading gives an integer literal n.
Num(n) == <<"num", Normalize(n, 0)[1], Normalize(n, 0)[2]>>

\* C1: for every input that is a JSON object X, a finished run has written a
\* JSON object Y whose names are those of X with echoed_by and ts, with
\* Y[echoed_by] = "python", Y[ts] an integer, and Y[k] = X[k] for every other
\* name k of X.
C1_OutputIsInputPlusTwoKeys ==
    (Done(1) /\ ValidObject(stdin)) =>
        /\ ValidObject(stdout[1])
        /\ LET x == Obj(stdin)
               y == Obj(stdout[1])
           IN  /\ DOMAIN y = DOMAIN x \cup Added
               /\ y["echoed_by"] = <<"str", "python">>
               /\ y["ts"][1] = "num" /\ y["ts"][3] >= 0
               /\ \A name \in DOMAIN x \ Added : y[name] = x[name]

\* C2: for every input JSON object that already has an echoed_by or a ts
\* member, the run succeeds and the output's echoed_by is "python" and its ts
\* the whole seconds of the clock reading, each in one member only: no old
\* value is kept.
C2_ExistingKeysOverwritten ==
    (Done(1) /\ ValidObject(stdin) /\ DOMAIN Obj(stdin) \cap Added # {}) =>
        /\ status[1] = 0
        /\ Shaped(stdout[1]) /\ IsObjectText(stdout[1])
        /\ LET y == Obj(stdout[1])
           IN  /\ y["echoed_by"] = <<"str", "python">>
               /\ y["ts"] = Num(now[1] \div TicksPerSecond)
        /\ MemberCount(stdout[1], "echoed_by") = 1
        /\ MemberCount(stdout[1], "ts") = 1

\* A finished run on an object that had both keys, with values that are not
\* the new ones.
C2_Witness ==
    /\ Done(1) /\ ValidObject(stdin)
    /\ DOMAIN Obj(stdin) = Added
    /\ Obj(stdin)["ts"] = Num(7)
    /\ Obj(stdin)["echoed_by"][1] = "arr"
    /\ now[1] = MaxClock

\* C3: for every input text that is not valid JSON, the run ends in the
\* unhandled parse fault with a non-zero exit status, after the one read and
\* nothing else, and standard output holds no valid JSON document.
C3_MalformedInputFaults ==
    (Done(1) /\ ~ValidJson(stdin)) =>
        /\ exc[1] = "JSONDecodeError"
        /\ status[1] # 0
        /\ ~ValidJson(stdout[1])
        /\ log[1] = <<"read_stdin">>

\* C4: for every input that is valid JSON but not an object, the first key
\* assignment faults with a TypeError nothing handles, and the process exits
\* with a non-zero status (having set no key and written nothing).
C4_NonObjectFaults ==
    (Done(1) /\ ValidJson(stdin) /\ ~IsObjectText(stdin)) =>
        /\ exc[1] = "TypeError"
        /\ status[1] # 0
        /\ log[1] = <<"read_stdin">>
        /\ stdout[1] = <<>>

\* A finished run on an array.
C4_Witness ==
    /\ Done(1) /\ ValidJson(stdin)
    /\ IsP(stdin[1], "[")
    /\ exc[1] = "TypeError"

\* C5: the exit status is zero exactly when the input is a valid JSON object,
\* and a run that exits with status zero has written one JSON object.
C5_ExitZeroIffObject ==
    Done(1) =>
        /\ status[1] = 0 <=> ValidObject(stdin)
        /\ status[1] = 0 => ValidObject(stdout[1])

\* Invocations p and q ended alike: the same exit status, and outputs that
\* agree on every name and value other than the value of ts.
SameButTs(p, q) ==
    /\ status[p] = status[q]
    /\ IF stdout[p] = <<>> \/ stdout[q] = <<>> THEN stdout[p] = stdout[q]
       ELSE /\ Shaped(stdout[p]) /\ IsObjectText(stdout[p])
            /\ Shaped(stdout[q]) /\ IsObjectText(stdout[q])
            /\ LET x == Obj(stdout[p])
                   y == Obj(stdout[q])
               IN  /\ DOMAIN x = DOMAIN y
                   /\ \A name \in DOMAIN x \ {"ts"} : x[name] = y[name]

\* C6: two invocations of the processing logic on the same input, whatever
\* their clock readings, end with the same status and with outputs that agree
\* on echoed_by and on every other key but ts (checked under SpecPair).
C6_RunsDifferOnlyInTs ==
    (src[1] = "body" /\ src[2] = "body" /\ Done(1) /\ Done(2)) => SameButTs(1, 2)

\* Two finished invocations whose outputs differ in ts.
C6_Witness ==
    /\ src[2] = "body" /\ Done(1) /\ Done(2)
    /\ status[1] = 0 /\ status[2] = 0
    /\ Obj(stdout[1])["ts"] # Obj(stdout[2])["ts"]
    /\ "a" \in DOMAIN Obj(stdout[1])

\* C7: the DOC block is inert: the file as it is (invocation 1) ends, on every
\* input, with the same exit status and output (but for the value of ts) as
\* the processing logic alone (invocation 2) (checked under SpecScript).
C7_HeaderIsInert ==
    (src[1] = "file" /\ src[2] = "body" /\ Done(1) /\ Done(2)) => SameButTs(1, 2)

FullIO == <<"read_stdin", "clock", "write_stdout">>

FullOrder == <<"read_stdin", "set_echoed_by", "clock", "set_ts", "write_stdout">>

\* The final states: the success exit, the parse fault, the key-assignment fault.
FinalState ==
    \/ status[1] = 0 /\ exc[1] = "" /\ log[1] = FullOrder
    \/ status[1] = 1 /\ exc[1] = "JSONDecodeError" /\ log[1] = <<"read_stdin">>
    \/ status[1] = 1 /\ exc[1] = "TypeError" /\ log[1] = <<"read_stdin">>

\* C9: an invocation whose standard input reaches end-of-stream eventually
\* terminates; it ends in one of three final states; its steps are a prefix of
\* read, set echoed_by, (clock) set ts, write, none repeated (checked under
\* FairSpec).
C9_TerminatesInOneOfThree ==
    /\ [](Prefix(log[1], FullOrder) /\ (Done(1) => FinalState))
    /\ (eof ~> Done(1))

\* A run that ended in the success exit after all four steps.
C9_Witness == Done(1) /\ status[1] = 0 /\ log[1] = FullOrder /\ eof

\* C10: the write is the last step, enabled only after the parse and both key
\* assignments; a run that ends in a fault has written nothing; whatever has
\* been written is a document that has both echoed_by and ts.
C10_WriteLastAndWhole ==
    /\ pc[1] = "dump" =>
            /\ log[1] = SubSeq(FullOrder, 1, 4)
            /\ Added \subseteq DictKeys(data[1][2])
    /\ (Done(1) /\ status[1] # 0) => stdout[1] = <<>>
    /\ stdout[1] # <<>> =>
            /\ log[1] = FullOrder
            /\ Shaped(stdout[1]) /\ IsObjectText(stdout[1])
            /\ Added \subseteq DOMAIN Obj(stdout[1])

\* A run that has written its document.
C10_Witness ==
    /\ stdout[1] # <<>>
    /\ pc[1] = "return"
    /\ DOMAIN Obj(stdout[1]) = Added \cup {"a"}

====
